---- MODULE Spec2Model ----
(***************************************************************************)
(* TinyPNG batch compressor: the command-line tool (index.js) and the VS   *)
(* Code extension (extension.js).  Both drain one shared array of file     *)
(* paths with min(itemCount, maxConcurrent) asynchronous workers, retry    *)
(* each file maxRetries times, and collect the outcomes in results.success *)
(* and results.failed.  The command-line tool also copies failed files to  *)
(* a holding directory and re-processes that directory in a second pass.   *)
(*                                                                         *)
(* Node runs the workers on one thread: the code between two awaits is one *)
(* atomic step, and each action below is one such step.                    *)
(***************************************************************************)
EXTENDS Integers, Sequences, FiniteSets, TLC

(***************************************************************************)
(* Bounds of the model.                                                    *)
(***************************************************************************)
MaxImages == 3          \* supported images in the source tree: 0..MaxImages
MaxConcurrentBound == 2 \* CONFIG.MAX_CONCURRENT ranges over 1..MaxConcurrentBound
MaxRetriesBound == 1    \* CONFIG.MAX_RETRIES ranges over 0..MaxRetriesBound
MaxRuns == 2            \* invocations of the tool on the same directories

(***************************************************************************)
(* Paths are sequences of components below __dirname.                      *)
(***************************************************************************)
SOURCE_ROOT == <<"static">>
OUTPUT_ROOT == <<"compressed_results">>
SAVE_FAILED_TO == <<"failed_images">>
SUPPORTED_FORMATS == {".jpg", ".jpeg", ".png", ".webp"}
SKIP_HIDDEN_DIRS == TRUE
COPY_UNSUPPORTED_TO_OUTPUT == TRUE

\* The extension's output directory: sourceDir + config.outputSuffix.
ExtOutputDir == <<"static_compressed">>

\* The supported images a source tree may hold, in the order readdirSync
\* lists them; two of them share a base name.
ImageList ==
  << <<"static", "a", "x.png">>, <<"static", "b", "x.png">>,
     <<"static", "y.jpg">>, <<"static", "z.webp">> >>

\* Files every source tree holds: one of an unsupported kind, and one
\* supported image inside a hidden directory.
SvgFile == <<"static", "icon.svg">>
HiddenFile == <<"static", ".git", "h.png">>

\* Entry names in the order readdirSync returns them.
NameOrder == <<".git", "a", "b", "h.png", "icon.svg", "x.png", "y.jpg", "z.webp">>

\* path.extname(name).toLowerCase()
extname(name) ==
  CASE name \in {"x.png", "h.png"} -> ".png"
    [] name = "y.jpg" -> ".jpg"
    [] name = "z.webp" -> ".webp"
    [] name = "icon.svg" -> ".svg"
    [] OTHER -> ""

\* Mutant of startsWithDot: no name counts as hidden.
neverHidden(name) == FALSE

\* name.startsWith('.')
startsWithDot(name) == name \in {".git", ".."}

basename(p) == p[Len(p)]
dirname(p) == SubSeq(p, 1, Len(p) - 1)

\* path.normalize on a component list: ".." removes the component before it.
RECURSIVE normalizeFrom(_, _)
normalizeFrom(done, rest) ==
  IF rest = <<>> THEN done
  ELSE IF Head(rest) = ".." /\ done # <<>> /\ done[Len(done)] # ".."
       THEN normalizeFrom(SubSeq(done, 1, Len(done) - 1), Tail(rest))
       ELSE normalizeFrom(Append(done, Head(rest)), Tail(rest))

normalize(p) == normalizeFrom(<<>>, p)

\* path.join(a, b, name)
join(a, b, name) == normalize(a \o b \o <<name>>)

\* Length of the longest common prefix of two paths.
RECURSIVE commonPrefix(_, _)
commonPrefix(a, b) ==
  IF a = <<>> \/ b = <<>> \/ Head(a) # Head(b) THEN 0
  ELSE 1 + commonPrefix(Tail(a), Tail(b))

\* path.relative(from, to): climb out of from, then descend into to.
relative(from, to) ==
  LET k == commonPrefix(from, to)
  IN [i \in 1..(Len(from) - k) |-> ".."] \o SubSeq(to, k + 1, Len(to))

IsPrefix(a, b) == Len(a) <= Len(b) /\ SubSeq(b, 1, Len(a)) = a

(***************************************************************************)
(* File contents: which source file the bytes come from, and whether they  *)
(* are the original bytes or TinyPNG's compressed bytes.                   *)
(***************************************************************************)
Original(f) == [of |-> f, tiny |-> FALSE]
Compressed(c) == [of |-> c.of, tiny |-> TRUE]

\* fileData.length and fs.statSync(outputPath).size
SizeOf(c) == IF c.tiny THEN 1 ELSE 2

VARIABLES
  program,        \* "cli" (index.js) or "ext" (extension.js)
  fs,             \* the files on disk: path -> contents
  dirs,           \* the root directories that exist
  retryOnly,      \* args.includes('--retry-failed')
  maxConcurrent,  \* CONFIG.MAX_CONCURRENT / config.maxConcurrent
  maxRetries,     \* CONFIG.MAX_RETRIES / config.maxRetries
  preserve,       \* CONFIG.PRESERVE_DIR_STRUCTURE / config.preserveStructure
  run,            \* number of the current invocation
  mainPc,         \* where main / compressFolder / retryFailedFolder stands
  isRetry,        \* the isRetry argument of the current pool's workers
  allFiles,       \* allFiles / failedFiles: the items of the current pass
  filesToProcess, \* the shared queue
  workers,        \* the processWorker promises of the current pool
  results,        \* { success: [], failed: [] } of the current pass
  attempts,       \* per item, the try-block entries of compressImageWorker
  handed,         \* per item, how many times files.shift() returned it
  emptyFirst,     \* workers whose first loop check found the queue empty
  processedCount, \* bar.tick() calls / progressCallback calls of the current pass
  joined,         \* TRUE once await Promise.all(workers) has settled
  stats,          \* the statistics computed after the pool, or NoStats
  fsAtStart,      \* the files on disk when the current pass started
  warned,         \* the files whose copy or unlink error console.warn reported
  transform       \* per image, the attempt at which TinyPNG first succeeds

vars == <<program, fs, dirs, retryOnly, maxConcurrent, maxRetries, preserve,
          run, mainPc, isRetry, allFiles, filesToProcess, workers, results,
          attempts, handed, emptyFirst, processedCount, joined, stats,
          fsAtStart, warned, transform>>

(***************************************************************************)
(* The file system.                                                        *)
(***************************************************************************)
Range(s) == {s[i] : i \in 1..Len(s)}

existsSync(p) == p \in dirs \/ p \in DOMAIN fs

writeFile(f, p, c) == [q \in DOMAIN f \cup {p} |-> IF q = p THEN c ELSE f[q]]
\* Mutant of unlink: the file stays.
unlinkKeeps(f, p) == f

unlink(f, p) == [q \in DOMAIN f \ {p} |-> f[q]]

isDirectory(f, p) == \E q \in DOMAIN f : IsPrefix(p, q) /\ Len(q) > Len(p)

\* fs.readdirSync(dir): the names of the entries of dir
readdirSync(f, dir) ==
  LET present(n) == \E q \in DOMAIN f : IsPrefix(Append(dir, n), q)
  IN SelectSeq(NameOrder, present)

\* The source tree with the first n images of ImageList.
SourceTree(n) ==
  LET files == {ImageList[i] : i \in 1..n} \cup {SvgFile, HiddenFile}
  IN [p \in files |-> Original(p)]

EmptyDisk == [p \in {} |-> Original(p)]

\* A disk without the source directory whose holding directory was filled
\* by an earlier invocation: a file of an unsupported kind and, when
\* withImage, a copy of the image static/y.jpg.
HeldUnsupported == <<"failed_images", "icon.svg">>
HeldImage == <<"failed_images", "y.jpg">>
HoldingTree(withImage) ==
  LET files == {HeldUnsupported} \cup (IF withImage THEN {HeldImage} ELSE {})
  IN [p \in files |-> Original(IF p = HeldImage THEN ImageList[3] ELSE SvgFile)]

\* The root directories that exist on the disk f.
rootsOf(f) ==
  {r \in {SOURCE_ROOT, SAVE_FAILED_TO} : \E q \in DOMAIN f : IsPrefix(r, q)}

(***************************************************************************)
(* getAllImageFiles: index.js skips hidden directories and the holding     *)
(* directory; extension.js skips hidden directories and the output         *)
(* directory.                                                              *)
(***************************************************************************)
RECURSIVE getAllImageFiles(_, _, _), scanEntries(_, _, _, _)
getAllImageFiles(f, dir, skipDir) ==
  IF SKIP_HIDDEN_DIRS /\ startsWithDot(basename(dir)) THEN <<>>
  ELSE IF dir = skipDir THEN <<>>
  ELSE scanEntries(f, dir, skipDir, readdirSync(f, dir))

scanEntries(f, dir, skipDir, files) ==
  IF files = <<>> THEN <<>>
  ELSE LET fullPath == Append(dir, Head(files))
           here == IF isDirectory(f, fullPath)
                   THEN getAllImageFiles(f, fullPath, skipDir)
                   ELSE IF extname(Head(files)) \in SUPPORTED_FORMATS
                        THEN <<fullPath>>
                        ELSE <<>>
       IN here \o scanEntries(f, dir, skipDir, Tail(files))

\* Mutant of failedFilesOf: the filter on the extension is missing.
failedFilesUnfiltered(f) ==
  LET names == readdirSync(f, SAVE_FAILED_TO)
  IN [i \in 1..Len(names) |-> Append(SAVE_FAILED_TO, names[i])]

\* retryFailedFolder's listing of the holding directory
failedFilesOf(f) ==
  LET names == readdirSync(f, SAVE_FAILED_TO)
      supported(n) == extname(n) \in SUPPORTED_FORMATS
      kept == SelectSeq(names, supported)
  IN [i \in 1..Len(kept) |-> Append(SAVE_FAILED_TO, kept[i])]

(***************************************************************************)
(* compressImageWorker's result objects.                                   *)
(***************************************************************************)
NoPath == <<>>
NoResult == [success |-> FALSE, filePath |-> NoPath, outputPath |-> NoPath,
             originalSize |-> 0, compressedSize |-> 0, error |-> 0]

\* Mutant of outputPathOf: the flat branch is taken whatever the flag says.
outputPathFlat(sourceRoot, outputRoot, filePath) ==
  join(outputRoot, <<>>, basename(filePath))

\* Step 6 of compressImageWorker: the output path of filePath.
outputPathOf(sourceRoot, outputRoot, filePath) ==
  IF preserve
  THEN join(outputRoot, relative(sourceRoot, dirname(filePath)), basename(filePath))
  ELSE join(outputRoot, <<>>, basename(filePath))

SourceRootOf == SOURCE_ROOT
OutputRootOf == IF program = "ext" THEN ExtOutputDir ELSE OUTPUT_ROOT

successResult(filePath, outputPath, data) ==
  [success |-> TRUE, filePath |-> filePath, outputPath |-> outputPath,
   originalSize |-> SizeOf(data), compressedSize |-> SizeOf(Compressed(data)),
   error |-> 0]

\* The error field stands for the error of the attempt-th attempt.
failureResult(filePath, attempt) ==
  [success |-> FALSE, filePath |-> filePath, outputPath |-> NoPath,
   originalSize |-> 0, compressedSize |-> 0, error |-> attempt]

(***************************************************************************)
(* The worker pool.                                                        *)
(***************************************************************************)
WorkerIds == 1..MaxConcurrentBound
Idle == [pc |-> "unspawned", file |-> NoPath, retryCount |-> 0, result |-> NoResult]
Exited == [Idle EXCEPT !.pc = "exited"]
NoStats == [successCount |-> -1, failedCount |-> -1, totalOriginal |-> -1,
            totalCompressed |-> -1, totalSavedPercent |-> -1]

\* Mutants of workerCount: Math.max for Math.min, and the limit alone.
workerCountMax(n, limit) == IF n > limit THEN n ELSE limit
workerCountLimit(n, limit) == limit

\* Math.min(allFiles.length, CONFIG.MAX_CONCURRENT)
workerCount(n, limit) == IF n < limit THEN n ELSE limit

\* while (retryCount <= CONFIG.MAX_RETRIES), the loop test of compressImageWorker
whileTest(retryCount, limit) == retryCount <= limit

\* Mutant of loopHead: files.pop() for files.shift().
loopHeadPop(p, w) ==
  IF Len(p.queue) > 0
  THEN LET file == p.queue[Len(p.queue)]
           enters == whileTest(0, maxRetries)
       IN [queue |-> SubSeq(p.queue, 1, Len(p.queue) - 1),
           workers |-> [p.workers EXCEPT ![w] =
                          [pc |-> IF enters THEN "attempting" ELSE "returned",
                           file |-> file, retryCount |-> 0, result |-> NoResult]],
           attempts |-> [p.attempts EXCEPT ![file] = IF enters THEN @ + 1 ELSE @],
           handed |-> [p.handed EXCEPT ![file] = @ + 1],
           emptyFirst |-> p.emptyFirst,
           processedCount |-> p.processedCount]
  ELSE [p EXCEPT !.workers[w] = Exited,
                 !.emptyFirst = IF p.workers[w].pc = "unspawned"
                                THEN @ \cup {w} ELSE @]

\* The head of processWorker's loop, run by worker w on the pool state p:
\* while (files.length > 0) { const file = files.shift(); ... } and the
\* synchronous start of compressImageWorker(file), up to its first await.
\* When the retry loop is not entered compressImageWorker returns undefined.
loopHead(p, w) ==
  IF Len(p.queue) > 0
  THEN LET file == Head(p.queue)
           enters == whileTest(0, maxRetries)
       IN [queue |-> Tail(p.queue),
           workers |-> [p.workers EXCEPT ![w] =
                          [pc |-> IF enters THEN "attempting" ELSE "returned",
                           file |-> file, retryCount |-> 0, result |-> NoResult]],
           attempts |-> [p.attempts EXCEPT ![file] = IF enters THEN @ + 1 ELSE @],
           handed |-> [p.handed EXCEPT ![file] = @ + 1],
           emptyFirst |-> p.emptyFirst,
           processedCount |-> p.processedCount]
  ELSE [p EXCEPT !.workers[w] = Exited,
                 !.emptyFirst = IF p.workers[w].pc = "unspawned"
                                THEN @ \cup {w} ELSE @]

\* for (let i = 0; i < count; i++) workers.push(processWorker(...)): every
\* call runs synchronously up to its first await.
RECURSIVE spawn(_, _, _)
spawn(p, i, count) ==
  IF i > count THEN p ELSE spawn(loopHead(p, i), i + 1, count)

freshPool(files) ==
  [queue |-> files,
   workers |-> [w \in WorkerIds |-> Idle],
   attempts |-> [f \in Range(files) |-> 0],
   handed |-> [f \in Range(files) |-> 0],
   emptyFirst |-> {},
   processedCount |-> 0]

startPool(files) == spawn(freshPool(files), 1, workerCount(Len(files), maxConcurrent))

PoolState == [queue |-> filesToProcess, workers |-> workers, attempts |-> attempts,
              handed |-> handed, emptyFirst |-> emptyFirst,
              processedCount |-> processedCount]

SetPool(p) ==
  /\ filesToProcess' = p.queue
  /\ workers' = p.workers
  /\ attempts' = p.attempts
  /\ handed' = p.handed
  /\ emptyFirst' = p.emptyFirst
  /\ processedCount' = p.processedCount

NoPool == freshPool(<<>>)
spawned == {w \in WorkerIds : workers[w].pc # "unspawned"}
running == {w \in WorkerIds : workers[w].pc \notin {"unspawned", "exited", "threw"}}

(***************************************************************************)
(* Initial states: the first invocation on a disk that holds at most the   *)
(* source tree.                                                            *)
(***************************************************************************)
InitCommon ==
  /\ fs \in {SourceTree(n) : n \in 0..MaxImages}
            \cup {EmptyDisk, HoldingTree(TRUE), HoldingTree(FALSE)}
  /\ dirs = rootsOf(fs)
  /\ maxConcurrent \in 1..MaxConcurrentBound
  /\ maxRetries \in 0..MaxRetriesBound
  /\ preserve \in BOOLEAN
  /\ run = 1
  /\ mainPc = "main"
  /\ isRetry = FALSE
  /\ allFiles = <<>>
  /\ filesToProcess = <<>>
  /\ workers = NoPool.workers
  /\ results = [success |-> <<>>, failed |-> <<>>]
  /\ attempts = NoPool.attempts
  /\ handed = NoPool.handed
  /\ emptyFirst = {}
  /\ processedCount = 0
  /\ joined = FALSE
  /\ stats = NoStats
  /\ fsAtStart = fs
  /\ warned = {}

\* The TinyPNG service as the attempts see it: transform[f] = 0 leaves the
\* outcome of every attempt on the bytes of f open; transform[f] = k > 0
\* makes the attempts before the k-th fail and the k-th succeed.
AnyTransform == [f \in Range(ImageList) |-> 0]

\* Whether the attempt worker w is making may end as ok says.
transformReturns(w, ok) ==
  LET origin == fs[workers[w].file].of
      first == IF origin \in DOMAIN transform THEN transform[origin] ELSE 0
  IN first = 0 \/ (ok <=> attempts[workers[w].file] >= first)

Init ==
  /\ program = "cli"
  /\ retryOnly \in BOOLEAN
  /\ transform = AnyTransform
  /\ InitCommon

config == <<program, retryOnly, maxConcurrent, maxRetries, preserve, run, transform>>
poolVars == <<filesToProcess, workers, attempts, handed, emptyFirst, processedCount>>

\* A pass starts on the items files with fresh results.
BeginPass(files, retry) ==
  /\ allFiles' = files
  /\ isRetry' = retry
  /\ results' = [success |-> <<>>, failed |-> <<>>]
  /\ joined' = FALSE
  /\ stats' = NoStats
  /\ fsAtStart' = fs
  /\ warned' = {}
  /\ SetPool(startPool(files))

(***************************************************************************)
(* compressImageWorker, one attempt at a time.                             *)
(***************************************************************************)
\* A rejected worker promise rejects Promise.all in a microtask, which runs
\* before the timer or network callback that resumes any other worker.
settling == mainPc = "pool" /\ \E w \in DOMAIN workers : workers[w].pc = "threw"

\* The try block runs to its end: the compressed bytes are written to the
\* output path and the success object is returned.
AttemptSucceeds(w) ==
  /\ ~settling
  /\ workers[w].pc = "attempting"
  /\ workers[w].file \in DOMAIN fs
  /\ transformReturns(w, TRUE)
  /\ LET file == workers[w].file
         outputPath == outputPathOf(SourceRootOf, OutputRootOf, file)
         data == fs[file]
     IN /\ fs' = writeFile(fs, outputPath, Compressed(data))
        /\ workers' = [workers EXCEPT ![w].pc = "returned",
                                      ![w].result = successResult(file, outputPath, data)]
  /\ UNCHANGED <<config, dirs, mainPc, isRetry, allFiles, filesToProcess, results,
                 attempts, handed, emptyFirst, processedCount, joined, stats, fsAtStart, warned>>

\* Mutant of nextRetryCount: the increment is missing.
sameRetryCount(retryCount) == retryCount

\* retryCount++ of the catch block
nextRetryCount(retryCount) == retryCount + 1

\* Mutant of exhausted: >= for >.
exhaustedEarly(retryCount, limit) == retryCount >= limit

\* if (retryCount > CONFIG.MAX_RETRIES), tested on the incremented count
exhausted(retryCount, limit) == retryCount > limit

\* The try block throws: retryCount++, then either the failure object is
\* returned or the backoff timer is awaited.
AttemptFails(w) ==
  /\ ~settling
  /\ workers[w].pc = "attempting"
  /\ transformReturns(w, FALSE)
  /\ LET retryCount == nextRetryCount(workers[w].retryCount)
         file == workers[w].file
     IN workers' = [workers EXCEPT ![w] =
          IF exhausted(retryCount, maxRetries)
          THEN [pc |-> "returned", file |-> file, retryCount |-> retryCount,
                result |-> failureResult(file, attempts[file])]
          ELSE [pc |-> "backoff", file |-> file, retryCount |-> retryCount,
                result |-> NoResult]]
  /\ UNCHANGED <<config, fs, dirs, mainPc, isRetry, allFiles, filesToProcess, results,
                 attempts, handed, emptyFirst, processedCount, joined, stats, fsAtStart, warned>>

\* The backoff timer fires and the loop test is evaluated: the next attempt
\* starts, or the loop ends and compressImageWorker returns undefined.
BackoffDone(w) ==
  /\ ~settling
  /\ workers[w].pc = "backoff"
  /\ IF whileTest(workers[w].retryCount, maxRetries)
     THEN /\ workers' = [workers EXCEPT ![w].pc = "attempting"]
          /\ attempts' = [attempts EXCEPT ![workers[w].file] = @ + 1]
     ELSE /\ workers' = [workers EXCEPT ![w].pc = "returned"]
          /\ attempts' = attempts
  /\ UNCHANGED <<config, fs, dirs, mainPc, isRetry, allFiles, filesToProcess, results,
                 handed, emptyFirst, processedCount, joined, stats, fsAtStart, warned>>

(***************************************************************************)
(* processWorker of index.js.                                              *)
(***************************************************************************)
\* What processWorker pushes for worker w: the returned object, or, when
\* result is undefined, the object of its catch block (result.success throws).
outcomeOf(w) ==
  IF workers[w].result = NoResult
  THEN failureResult(workers[w].file, 0)
  ELSE workers[w].result

\* Mutant of pushResult: the else branch is missing.
pushSuccessOnly(r, result) ==
  IF result.success THEN [r EXCEPT !.success = Append(@, result)] ELSE r

\* The results after result is pushed.
pushResult(r, result) ==
  IF result.success
  THEN [r EXCEPT !.success = Append(@, result)]
  ELSE [r EXCEPT !.failed = Append(@, result)]

\* Mutant of deletesOnSuccess: the unlink is in the failure branch.
deletesOnFailure(retry, result) == retry /\ ~result.success

\* Mutant of deletesOnSuccess: the unlink is outside the success branch.
deletesAlways(retry, result) == retry

\* Whether a success in this pool deletes the processed file.
deletesOnSuccess(retry, result) == retry /\ result.success

\* Mutant of afterUnlinkError: the error reaches the outer catch block of
\* processWorker, which pushes a failure for the file.
afterUnlinkErrorOuter(r, file) == pushResult(r, failureResult(file, 0))

\* The results after fs.unlinkSync(file) threw: the catch block around it
\* only warns.
afterUnlinkError(r, file) == r

\* compressImageWorker has returned: the result is pushed and, in retry
\* mode, the processed file of a success is unlinked; an unlink error is
\* caught and logged.  Then the task delay is awaited.
Record(w) ==
  /\ program = "cli"
  /\ workers[w].pc = "returned"
  /\ IF deletesOnSuccess(isRetry, outcomeOf(w))
     THEN \E unlinkThrows \in BOOLEAN :
            IF unlinkThrows
            THEN /\ fs' = fs
                 /\ warned' = warned \cup {workers[w].file}
                 /\ results' = afterUnlinkError(pushResult(results, outcomeOf(w)),
                                                workers[w].file)
            ELSE /\ fs' = unlink(fs, workers[w].file)
                 /\ warned' = warned
                 /\ results' = pushResult(results, outcomeOf(w))
     ELSE /\ results' = pushResult(results, outcomeOf(w))
          /\ UNCHANGED <<fs, warned>>
  /\ processedCount' = processedCount + 1
  /\ workers' = [workers EXCEPT ![w] = [Idle EXCEPT !.pc = "delay"]]
  /\ UNCHANGED <<config, dirs, mainPc, isRetry, allFiles, filesToProcess,
                 attempts, handed, emptyFirst, joined, stats, fsAtStart>>

\* The task delay is over: back to the head of the loop.
DelayDone(w) ==
  /\ workers[w].pc = "delay"
  /\ SetPool(loopHead(PoolState, w))
  /\ UNCHANGED <<config, fs, dirs, mainPc, isRetry, allFiles, results, joined, stats, fsAtStart, warned>>

(***************************************************************************)
(* main, compressFolder and retryFailedFolder of index.js.                 *)
(***************************************************************************)
\* Mutant of allSettled: Promise.race for Promise.all.
someSettled(ws) == \E w \in WorkerIds : ws[w].pc = "exited"

\* Mutant of allSettled: promises that were never created are awaited too.
allExited(ws) == \A w \in WorkerIds : ws[w].pc = "exited"

\* Promise.all(workers) resolves once every worker promise has resolved.
allSettled(ws) == \A w \in WorkerIds : ws[w].pc \in {"unspawned", "exited"}

\* compressFolder up to await Promise.all(workers).
CompressFolder ==
  /\ program = "cli"
  /\ mainPc = "main"
  /\ ~retryOnly
  /\ IF ~existsSync(SOURCE_ROOT)
     THEN /\ mainPc' = "fullReturned"
          /\ UNCHANGED <<dirs, isRetry, allFiles, results, joined, stats, fsAtStart, warned, poolVars>>
     ELSE LET files == getAllImageFiles(fs, SOURCE_ROOT, SAVE_FAILED_TO)
          IN IF Len(files) = 0
             THEN /\ mainPc' = "copyUnsupported"
                  /\ UNCHANGED <<dirs, isRetry, allFiles, results, joined, stats, fsAtStart, warned, poolVars>>
             ELSE \E mkdirThrows \in BOOLEAN :
                    IF mkdirThrows /\ ~existsSync(OUTPUT_ROOT)
                    THEN /\ mainPc' = "caught"
                         /\ UNCHANGED <<dirs, isRetry, allFiles, results, joined, stats,
                                        fsAtStart, warned, poolVars>>
                    ELSE /\ mainPc' = "pool"
                         /\ dirs' = dirs \cup {OUTPUT_ROOT}
                         /\ BeginPass(files, FALSE)
  /\ UNCHANGED <<config, fs>>

\* await Promise.all(workers) returns, in compressFolder or retryFailedFolder.
PoolJoin ==
  /\ program = "cli"
  /\ mainPc = "pool"
  /\ allSettled(workers)
  /\ joined' = TRUE
  /\ mainPc' = IF isRetry THEN "done" ELSE "commit"
  /\ UNCHANGED <<config, fs, dirs, isRetry, allFiles, results, stats, fsAtStart, warned, poolVars>>

\* Mutant of copyFailed: a record already in the holding directory is kept.
RECURSIVE copyFailedIfAbsent(_, _, _, _)
copyFailedIfAbsent(f, failed, i, throws) ==
  IF i > Len(failed) THEN f
  ELSE LET src == failed[i].filePath
           targetPath == join(SAVE_FAILED_TO, <<>>, basename(src))
       IN copyFailedIfAbsent(IF i \in throws \/ src \notin DOMAIN f \/ targetPath \in DOMAIN f
                             THEN f ELSE writeFile(f, targetPath, f[src]),
                             failed, i + 1, throws)

\* Mutant of copyFailed: the try/catch is around the loop, so the first copy
\* that throws ends the copying.
RECURSIVE copyFailedStops(_, _, _, _)
copyFailedStops(f, failed, i, throws) ==
  IF i > Len(failed) \/ i \in throws THEN f
  ELSE LET src == failed[i].filePath
           targetPath == join(SAVE_FAILED_TO, <<>>, basename(src))
       IN copyFailedStops(IF src \notin DOMAIN f THEN f ELSE writeFile(f, targetPath, f[src]),
                          failed, i + 1, throws)

\* Mutant of copyFailed: the record keeps the path below the source root.
RECURSIVE copyFailedStructured(_, _, _, _)
copyFailedStructured(f, failed, i, throws) ==
  IF i > Len(failed) THEN f
  ELSE LET src == failed[i].filePath
           targetPath == join(SAVE_FAILED_TO, relative(SOURCE_ROOT, dirname(src)),
                              basename(src))
       IN copyFailedStructured(IF i \in throws \/ src \notin DOMAIN f
                               THEN f ELSE writeFile(f, targetPath, f[src]),
                               failed, i + 1, throws)

\* Mutant of copyFailed: nothing is copied.
copyFailedNone(f, failed, i, throws) == f

\* for (const f of results.failed): copy f.filePath to the holding
\* directory under its base name; the copies in throws are caught.
RECURSIVE copyFailed(_, _, _, _)
copyFailed(f, failed, i, throws) ==
  IF i > Len(failed) THEN f
  ELSE LET src == failed[i].filePath
           targetPath == join(SAVE_FAILED_TO, <<>>, basename(src))
       IN copyFailed(IF i \in throws \/ src \notin DOMAIN f
                     THEN f ELSE writeFile(f, targetPath, f[src]),
                     failed, i + 1, throws)

\* Step 5 of compressFolder.
Commit ==
  /\ program = "cli"
  /\ mainPc = "commit"
  /\ IF Len(results.failed) > 0
     THEN \E mkdirThrows \in BOOLEAN :
            IF mkdirThrows /\ ~existsSync(SAVE_FAILED_TO)
            THEN /\ mainPc' = "caught"
                 /\ UNCHANGED <<fs, dirs, warned>>
            ELSE /\ mainPc' = "stats"
                 /\ dirs' = dirs \cup {SAVE_FAILED_TO}
                 /\ \E throws \in SUBSET (1..Len(results.failed)) :
                      /\ fs' = copyFailed(fs, results.failed, 1, throws)
                      /\ warned' = {results.failed[i].filePath : i \in throws}
     ELSE /\ mainPc' = "stats"
          /\ UNCHANGED <<fs, dirs, warned>>
  /\ UNCHANGED <<config, isRetry, allFiles, results, joined, stats, fsAtStart, poolVars>>

RECURSIVE sum(_, _)
sum(s, field) == IF s = <<>> THEN 0 ELSE Head(s)[field] + sum(Tail(s), field)

\* Mutant of savedPercent: the test of totalOriginal is missing, and 0 / 0
\* gives NaN, written -1 here.
savedPercentUnguarded(totalOriginal, totalCompressed) ==
  IF totalOriginal = 0 THEN -1
  ELSE ((totalOriginal - totalCompressed) * 100) \div totalOriginal

\* totalOriginal > 0 ? (totalSaved / totalOriginal * 100) : 0, in whole percent
savedPercent(totalOriginal, totalCompressed) ==
  IF totalOriginal > 0
  THEN ((totalOriginal - totalCompressed) * 100) \div totalOriginal
  ELSE 0

statistics(r) ==
  LET totalOriginal == sum(r.success, "originalSize")
      totalCompressed == sum(r.success, "compressedSize")
  IN [successCount |-> Len(r.success), failedCount |-> Len(r.failed),
      totalOriginal |-> totalOriginal, totalCompressed |-> totalCompressed,
      totalSavedPercent |-> savedPercent(totalOriginal, totalCompressed)]

\* Step 6 of compressFolder.
Statistics ==
  /\ program = "cli"
  /\ mainPc = "stats"
  /\ stats' = statistics(results)
  /\ mainPc' = "copyUnsupported"
  /\ UNCHANGED <<config, fs, dirs, isRetry, allFiles, results, joined, fsAtStart, warned, poolVars>>

\* copyUnsupportedFiles: every file of an unsupported kind below dir, outside
\* hidden directories and skipDir, is copied to its output path.
RECURSIVE copyUnsupportedFiles(_, _, _), copyEntries(_, _, _, _)
copyUnsupportedFiles(f, dir, skipDir) ==
  IF startsWithDot(basename(dir)) THEN f
  ELSE IF dir = skipDir THEN f
  ELSE copyEntries(f, dir, skipDir, readdirSync(f, dir))

copyEntries(f, dir, skipDir, files) ==
  IF files = <<>> THEN f
  ELSE LET fullPath == Append(dir, Head(files))
           after == IF isDirectory(f, fullPath)
                    THEN copyUnsupportedFiles(f, fullPath, skipDir)
                    ELSE IF extname(Head(files)) \notin SUPPORTED_FORMATS
                         THEN writeFile(f, outputPathOf(SourceRootOf, OutputRootOf, fullPath),
                                        f[fullPath])
                         ELSE f
       IN copyEntries(after, dir, skipDir, Tail(files))

\* Step 7 of compressFolder; an error of the copy is thrown to main.
CopyUnsupported ==
  /\ program = "cli"
  /\ mainPc = "copyUnsupported"
  /\ \E copyThrows \in BOOLEAN :
       IF COPY_UNSUPPORTED_TO_OUTPUT /\ copyThrows
       THEN /\ mainPc' = "caught"
            /\ fs' = fs
       ELSE /\ mainPc' = "fullReturned"
            /\ fs' = IF COPY_UNSUPPORTED_TO_OUTPUT
                     THEN copyUnsupportedFiles(fs, SOURCE_ROOT, SAVE_FAILED_TO)
                     ELSE fs
  /\ UNCHANGED <<config, dirs, isRetry, allFiles, results, joined, stats, fsAtStart, warned, poolVars>>

\* retryFailedFolder up to await Promise.all(workers): called first with
\* --retry-failed, after compressFolder has returned otherwise.
RetryFailedFolder ==
  /\ program = "cli"
  /\ \/ mainPc = "main" /\ retryOnly
     \/ mainPc = "fullReturned"
  /\ IF ~existsSync(SAVE_FAILED_TO)
     THEN /\ mainPc' = "done"
          /\ UNCHANGED <<isRetry, allFiles, results, joined, stats, fsAtStart, warned, poolVars>>
     ELSE LET failedFiles == failedFilesOf(fs)
          IN IF Len(failedFiles) = 0
             THEN /\ mainPc' = "done"
                  /\ UNCHANGED <<isRetry, allFiles, results, joined, stats, fsAtStart, warned, poolVars>>
             ELSE /\ mainPc' = "pool"
                  /\ BeginPass(failedFiles, TRUE)
  /\ UNCHANGED <<config, fs, dirs>>

\* The tool is invoked again on the same directories with the same CONFIG.
Invoke ==
  /\ program = "cli"
  /\ mainPc \in {"done", "caught"}
  /\ run < MaxRuns
  /\ run' = run + 1
  /\ retryOnly' \in BOOLEAN
  /\ mainPc' = "main"
  /\ isRetry' = FALSE
  /\ allFiles' = <<>>
  /\ results' = [success |-> <<>>, failed |-> <<>>]
  /\ joined' = FALSE
  /\ stats' = NoStats
  /\ fsAtStart' = fs
  /\ warned' = {}
  /\ SetPool(NoPool)
  /\ UNCHANGED <<program, maxConcurrent, maxRetries, preserve, transform, fs, dirs>>

Next ==
  \/ CompressFolder
  \/ PoolJoin
  \/ Commit
  \/ Statistics
  \/ CopyUnsupported
  \/ RetryFailedFolder
  \/ Invoke
  \/ \E w \in WorkerIds : AttemptSucceeds(w)
  \/ \E w \in WorkerIds : AttemptFails(w)
  \/ \E w \in WorkerIds : BackoffDone(w)
  \/ \E w \in WorkerIds : Record(w)
  \/ \E w \in WorkerIds : DelayDone(w)

Spec == Init /\ [][Next]_vars

\* The steps Node's event loop takes on its own once a pool is started: a
\* pending TinyPNG request returns or times out, a timer fires, a settled
\* promise resumes its awaiter.
PoolSteps ==
  \/ PoolJoin
  \/ \E w \in WorkerIds : AttemptSucceeds(w)
  \/ \E w \in WorkerIds : AttemptFails(w)
  \/ \E w \in WorkerIds : BackoffDone(w)
  \/ \E w \in WorkerIds : Record(w)
  \/ \E w \in WorkerIds : DelayDone(w)

\* One invocation of index.js.
RunNext ==
  \/ CompressFolder
  \/ Commit
  \/ Statistics
  \/ CopyUnsupported
  \/ RetryFailedFolder
  \/ PoolSteps

\* One invocation of index.js in which every request returns and every
\* timer fires.
LiveSpec == Init /\ [][RunNext]_vars /\ WF_vars(PoolSteps)

(***************************************************************************)
(* index.js against a TinyPNG service whose outcome for an attempt depends  *)
(* only on the bytes sent and on how many attempts were made on them.       *)
(***************************************************************************)
\* The images of the disk f, by the source file their bytes come from.
originsOf(f) == {f[q].of : q \in DOMAIN f} \cap Range(ImageList)

DetInit ==
  /\ program = "cli"
  /\ retryOnly \in BOOLEAN
  /\ InitCommon
  /\ transform \in [Range(ImageList) -> 1..(MaxRetriesBound + 2)]
  /\ \A o \in Range(ImageList) \ originsOf(fs) : transform[o] = 1

DetSpec == DetInit /\ [][Next]_vars

(***************************************************************************)
(* extension.js: processWorker and compressFolder.                         *)
(***************************************************************************)
ExtInit ==
  /\ program = "ext"
  /\ retryOnly = FALSE
  /\ transform = AnyTransform
  /\ InitCommon

\* compressFolder always passes a progressCallback (lines 363-366).
progressCallbackGiven == TRUE

\* Whether the name result is bound where processWorker builds the
\* callback's arguments (line 319): result is a const of the try block
\* (line 301), which has ended there, and no outer scope declares it.
resultInScope == FALSE

\* Evaluating result?.success with result unbound throws a ReferenceError.
callbackThrows == progressCallbackGiven /\ ~resultInScope

\* compressImageWorker has returned: the result is pushed, then the
\* progress callback's arguments are evaluated.  The ReferenceError is
\* outside the try block, so it rejects the worker's promise.
ExtRecord(w) ==
  /\ program = "ext"
  /\ ~settling
  /\ workers[w].pc = "returned"
  /\ results' = pushResult(results, outcomeOf(w))
  /\ IF callbackThrows
     THEN /\ workers' = [workers EXCEPT ![w] = [Idle EXCEPT !.pc = "threw"]]
          /\ processedCount' = processedCount
     ELSE /\ workers' = [workers EXCEPT ![w] = [Idle EXCEPT !.pc = "delay"]]
          /\ processedCount' = IF progressCallbackGiven
                               THEN processedCount + 1 ELSE processedCount
  /\ UNCHANGED <<config, fs, dirs, mainPc, isRetry, allFiles, filesToProcess,
                 attempts, handed, emptyFirst, joined, stats, fsAtStart, warned>>

\* compressFolder up to await Promise.all(workers).
ExtCompressFolder ==
  /\ program = "ext"
  /\ mainPc = "main"
  /\ IF ~existsSync(SOURCE_ROOT)
     THEN /\ mainPc' = "threw"
          /\ UNCHANGED <<dirs, isRetry, allFiles, results, joined, stats, fsAtStart, warned, poolVars>>
     ELSE \E mkdirThrows \in BOOLEAN :
            IF mkdirThrows /\ ~existsSync(ExtOutputDir)
            THEN /\ mainPc' = "threw"
                 /\ UNCHANGED <<dirs, isRetry, allFiles, results, joined, stats, fsAtStart, warned, poolVars>>
            ELSE LET files == getAllImageFiles(fs, SOURCE_ROOT, ExtOutputDir)
                 IN /\ dirs' = dirs \cup {ExtOutputDir}
                    /\ IF Len(files) = 0
                       THEN /\ mainPc' = "returned"
                            /\ UNCHANGED <<isRetry, allFiles, results, joined, stats,
                                           fsAtStart, warned, poolVars>>
                       ELSE /\ mainPc' = "pool"
                            /\ BeginPass(files, FALSE)
  /\ UNCHANGED <<config, fs>>

\* await Promise.all(workers) settles: it throws to the caller as soon as
\* one worker promise is rejected; once all are resolved, compressFolder
\* copies the unsupported files, computes the statistics and returns.
ExtAwaitPool ==
  /\ program = "ext"
  /\ mainPc = "pool"
  /\ settling \/ allSettled(workers)
  /\ joined' = TRUE
  /\ IF settling
     THEN /\ mainPc' = "threw"
          /\ UNCHANGED <<fs, stats>>
     ELSE /\ mainPc' = "returned"
          /\ fs' = copyUnsupportedFiles(fs, SOURCE_ROOT, ExtOutputDir)
          /\ stats' = statistics(results)
  /\ UNCHANGED <<config, dirs, isRetry, allFiles, results, fsAtStart, warned, poolVars>>

\* Every worker throws after its first item, so the task delay of line 323
\* is never awaited and the loop head is reached from the spawn only.
ExtNext ==
  \/ ExtCompressFolder
  \/ ExtAwaitPool
  \/ \E w \in WorkerIds : AttemptSucceeds(w)
  \/ \E w \in WorkerIds : AttemptFails(w)
  \/ \E w \in WorkerIds : BackoffDone(w)
  \/ \E w \in WorkerIds : ExtRecord(w)

ExtSpec == ExtInit /\ [][ExtNext]_vars

(***************************************************************************)
(* Both programs: the properties they share are checked on either.         *)
(***************************************************************************)
BothInit == Init \/ ExtInit
BothNext == Next \/ ExtNext
BothSpec == BothInit /\ [][BothNext]_vars

(***************************************************************************)
(* Properties.                                                             *)
(***************************************************************************)
recorded == results.success \o results.failed
timesRecorded(f) == Cardinality({i \in 1..Len(recorded) : recorded[i].filePath = f})

RECURSIVE totalHanded(_)
totalHanded(files) ==
  IF files = <<>> THEN 0 ELSE handed[Head(files)] + totalHanded(Tail(files))

\* Items dequeued whose outcome is not yet pushed.
inProgress == totalHanded(allFiles) - Len(recorded)

holdingOf(f) == {q \in DOMAIN f : IsPrefix(SAVE_FAILED_TO, q)}
quarantinePath(filePath) == Append(SAVE_FAILED_TO, basename(filePath))

\* The full pass has run its commit step.
afterCommit ==
  /\ program = "cli"
  /\ ~isRetry
  /\ joined
  /\ mainPc \in {"stats", "copyUnsupported", "fullReturned"}

\* The recovery pass has ended.
afterRecovery == program = "cli" /\ isRetry /\ joined

\* C1: in each pass of index.js, once the worker pool has finished,
\* results.success.length + results.failed.length equals the number of
\* items the queue held at pool start, and every item is in exactly one
\* record of the two lists.
C1_EveryItemOneOutcome ==
  (program = "cli" /\ joined) =>
    /\ Len(results.success) + Len(results.failed) = Len(allFiles)
    /\ \A f \in Range(allFiles) : timesRecorded(f) = 1

C1_Witness ==
  /\ program = "cli" /\ joined /\ maxConcurrent = 2
  /\ Len(allFiles) >= 3
  /\ Len(results.success) >= 1
  /\ Len(results.failed) >= 1

\* C2: files.shift() hands every item of the initial queue to exactly one
\* worker: no item is handed twice, and when the pool has finished no item
\* is left in the queue or was never handed out.
C2_ExactlyOnceDelivery ==
  /\ \A f \in Range(allFiles) : handed[f] <= 1
  /\ joined => /\ filesToProcess = <<>>
               /\ \A f \in Range(allFiles) : handed[f] = 1

\* C2 restricted to index.js, where it holds: an item is in the queue or was
\* handed out once, never both, and the queue is empty when the pool joins.
C2_ExactlyOnceDeliveryCli ==
  program = "cli" =>
    /\ \A f \in Range(allFiles) :
         handed[f] + Cardinality({i \in 1..Len(filesToProcess) : filesToProcess[i] = f}) = 1
    /\ joined => filesToProcess = <<>>

\* C3: within one pass no item is attempted more than maxRetries + 1 times.
C3_AttemptsBounded ==
  \A f \in DOMAIN attempts : attempts[f] <= maxRetries + 1

C3_Witness ==
  /\ maxRetries >= 1
  /\ \E i \in 1..Len(results.failed) :
       attempts[results.failed[i].filePath] = maxRetries + 1

\* C4: at every point of a pass the items in progress (dequeued, outcome not
\* yet pushed) number at most min(itemCount, maxConcurrent), and they are
\* held by as many distinct workers, one item each.
C4_BoundedInProgress ==
  program = "cli" =>
    LET holders == {w \in WorkerIds : workers[w].file # NoPath}
    IN /\ inProgress <= maxConcurrent
       /\ inProgress <= Len(allFiles)
       /\ inProgress = Cardinality(holders)
       /\ \A v, w \in holders : workers[v].file = workers[w].file => v = w

C4_Witness ==
  /\ program = "cli" /\ maxConcurrent = 2 /\ Len(allFiles) = 3
  /\ inProgress = 2
  /\ Len(recorded) = 1

\* C5: a pool has exactly min(itemCount, maxConcurrent) workers, and none of
\* them finds the queue empty at its first loop test.
C5_ExactlyMinWorkers ==
  /\ Cardinality(spawned) <= Len(allFiles)
  /\ Cardinality(spawned) <= maxConcurrent
  /\ Cardinality(spawned) = Len(allFiles) \/ Cardinality(spawned) = maxConcurrent
  /\ emptyFirst = {}

C5_Witness ==
  /\ mainPc = "pool" /\ maxConcurrent = 2 /\ Len(allFiles) = 1
  /\ Cardinality(spawned) = 1

\* C6: when await Promise.all(workers) has settled, whether it returned or
\* threw, no worker of the pool is still running or about to push an
\* outcome; in index.js and in extension.js.
C6_PoolCompletesAfterWorkers == joined => running = {}

\* C7: in extension.js, once a pool has been started the pass never throws:
\* it returns success and failed lists covering every discovered image,
\* with statistics.
C7_ExtPassAlwaysReturns ==
  (program = "ext" /\ allFiles # <<>>) =>
    /\ mainPc # "threw"
    /\ joined => /\ mainPc = "returned"
                 /\ \A f \in Range(allFiles) : timesRecorded(f) = 1
                 /\ stats # NoStats

\* C8 as claimed: starting from an empty holding directory, after the
\* commit step of a full pass the holding directory holds one record per
\* failed source file, each a copy of that file, and no copy of a file of
\* the success list.
C8_HoldingIsExactlyFailed ==
  (afterCommit /\ holdingOf(fsAtStart) = {}) =>
    /\ Cardinality(holdingOf(fs)) = Len(results.failed)
    /\ \A i \in 1..Len(results.failed) :
         \E q \in holdingOf(fs) : fs[q] = fs[results.failed[i].filePath]
    /\ \A q \in holdingOf(fs), i \in 1..Len(results.success) :
         fs[q] # fs[results.success[i].filePath]

\* The last index of results.failed with base name n whose copy did not throw.
lastCopied(n) ==
  LET hits == {i \in 1..Len(results.failed) :
                 /\ basename(results.failed[i].filePath) = n
                 /\ results.failed[i].filePath \notin warned}
  IN CHOOSE i \in hits : \A j \in hits : j <= i

\* C8 amended: starting from an empty holding directory, after the commit
\* step of a full pass the holding directory holds exactly one record per
\* base name of the failed files whose copy did not throw, with the
\* contents of the last such file of the failed list, and no copy of a file
\* of the success list.
C8_HoldingIsFailedByBaseName ==
  (afterCommit /\ holdingOf(fsAtStart) = {}) =>
    LET copied == {results.failed[i].filePath : i \in 1..Len(results.failed)} \ warned
    IN /\ holdingOf(fs) = {quarantinePath(f) : f \in copied}
       /\ \A q \in holdingOf(fs) :
            fs[q] = fs[results.failed[lastCopied(basename(q))].filePath]
       /\ \A q \in holdingOf(fs), i \in 1..Len(results.success) :
            fs[q] # fs[results.success[i].filePath]

C8_Witness ==
  /\ afterCommit /\ holdingOf(fsAtStart) = {} /\ warned = {}
  /\ Len(results.success) >= 1
  /\ \E i, j \in 1..Len(results.failed) :
       /\ i < j
       /\ basename(results.failed[i].filePath) = basename(results.failed[j].filePath)

\* C9 as claimed: when a recovery pass has ended, the file of every success
\* record is gone from the holding directory, and the file of every failed
\* record is still there with the contents it had when the pass started.
C9_RecoveryRemovesSuccesses ==
  afterRecovery =>
    /\ \A i \in 1..Len(results.success) : results.success[i].filePath \notin DOMAIN fs
    /\ \A i \in 1..Len(results.failed) :
         /\ results.failed[i].filePath \in DOMAIN fs
         /\ fs[results.failed[i].filePath] = fsAtStart[results.failed[i].filePath]

\* C9 amended: when a recovery pass has ended, the file of every success
\* record is gone from the holding directory unless its unlink threw and was
\* reported, and the file of every failed record is still there with the
\* contents it had when the pass started.
C9_RecoveryRemovesUnlessUnlinkFails ==
  afterRecovery =>
    /\ \A i \in 1..Len(results.success) :
         \/ results.success[i].filePath \notin DOMAIN fs
         \/ results.success[i].filePath \in warned
    /\ \A i \in 1..Len(results.failed) :
         /\ results.failed[i].filePath \in DOMAIN fs
         /\ results.failed[i].filePath \notin warned
         /\ fs[results.failed[i].filePath] = fsAtStart[results.failed[i].filePath]

C9_Witness ==
  /\ afterRecovery /\ warned = {}
  /\ Len(results.success) >= 1
  /\ Len(results.failed) >= 1

\* C10: no success record of a pass, full or recovery, has a copy of its
\* file left in the holding directory: the copy goes when the success is
\* pushed.  A copy whose unlink threw and was reported is not counted.
C10_NoQuarantinedSuccess ==
  program = "cli" =>
    \A i \in 1..Len(results.success) :
      LET f == results.success[i].filePath
          q == quarantinePath(f)
      IN (q \in DOMAIN fs /\ fs[q].of = fsAtStart[f].of) => f \in warned

\* C11: when a pass of index.js, full or recovery, has ended, a file exists
\* at the outputPath of every success record of the pass.
C11_ArtifactExists ==
  (program = "cli" /\ joined) =>
    \A i \in 1..Len(results.success) : results.success[i].outputPath \in DOMAIN fs

\* C11 restricted to full passes, where it holds: the file exists and holds
\* compressed bytes.
C11_ArtifactExistsFullPass ==
  (program = "cli" /\ joined /\ ~isRetry) =>
    \A i \in 1..Len(results.success) :
      /\ results.success[i].outputPath \in DOMAIN fs
      /\ fs[results.success[i].outputPath].tiny

\* C12: when the source directory does not exist, a full pass ends by
\* throwing to its caller (main's catch in index.js, the command handler in
\* extension.js), and it dequeues nothing, attempts nothing, writes no file,
\* creates no directory and builds no results.
C12_MissingSourceIsSetupError ==
  (~retryOnly /\ ~existsSync(SOURCE_ROOT) /\ mainPc # "main") =>
    /\ mainPc \in {"caught", "threw"}
    /\ allFiles = <<>> /\ spawned = {}
    /\ fs = fsAtStart
    /\ dirs = rootsOf(fsAtStart)

\* The part of C12 that index.js satisfies: with the source directory
\* missing, compressFolder itself starts no pool and changes nothing on disk.
C12_MissingSourceNoEffect ==
  (program = "cli" /\ ~retryOnly /\ ~existsSync(SOURCE_ROOT) /\ mainPc = "fullReturned") =>
    /\ allFiles = <<>> /\ spawned = {}
    /\ fs = fsAtStart
    /\ dirs = rootsOf(fsAtStart)

\* No entry of the holding directory on disk f is of a supported kind.
noSupportedHeld(f) ==
  \A q \in holdingOf(f) : extname(q[Len(SAVE_FAILED_TO) + 1]) \notin SUPPORTED_FORMATS

\* The step is a call of retryFailedFolder up to its return or first await.
recoveryCalled ==
  /\ program = "cli"
  /\ (mainPc = "main" /\ retryOnly) \/ mainPc = "fullReturned"
  /\ mainPc' # mainPc

\* C13: a call of retryFailedFolder that finds the holding directory absent
\* or without a file of a supported kind returns normally and changes
\* nothing: no worker is spawned, no attempt is made, no result is recorded,
\* and the files and directories on disk stay as they are.
C13_EmptyRecoveryIsNoOp ==
  [][(recoveryCalled /\ (~existsSync(SAVE_FAILED_TO) \/ noSupportedHeld(fs))) =>
       /\ mainPc' = "done"
       /\ UNCHANGED <<fs, dirs, workers, attempts, handed, results, isRetry, warned>>]_vars

C13_Witness ==
  /\ program = "cli" /\ retryOnly /\ mainPc = "done"
  /\ existsSync(SAVE_FAILED_TO)
  /\ HeldUnsupported \in DOMAIN fs
  /\ noSupportedHeld(fs)
  /\ spawned = {}

pathsOf(records) == [i \in 1..Len(records) |-> records[i].filePath]

\* What a pass over files yields with maxConcurrent = 1 against the service
\* transform: one worker takes the items in queue order, and an item
\* succeeds iff its first successful attempt is among the maxRetries + 1
\* attempts the retry loop makes.
RECURSIVE sequentialRun(_)
sequentialRun(files) ==
  IF files = <<>> THEN [success |-> <<>>, failed |-> <<>>]
  ELSE LET rest == sequentialRun(Tail(files))
           file == Head(files)
       IN IF transform[fsAtStart[file].of] <= maxRetries + 1
          THEN [rest EXCEPT !.success = <<file>> \o @]
          ELSE [rest EXCEPT !.failed = <<file>> \o @]

isPrefixOf(s, t) == Len(s) <= Len(t) /\ SubSeq(t, 1, Len(s)) = s

\* C15: against a service whose outcome depends only on the item and the
\* attempt number, a pass with maxConcurrent = 1 records the outcomes in
\* queue order, and a finished pass with any maxConcurrent has the same set
\* of succeeded items and the same set of failed items as the pass with
\* maxConcurrent = 1, whatever the interleaving of the workers.
C15_OutcomeSetsIndependentOfScheduling ==
  (program = "cli" /\ transform # AnyTransform /\ allFiles # <<>>) =>
    LET ref == sequentialRun(allFiles)
    IN /\ maxConcurrent = 1 =>
            /\ isPrefixOf(pathsOf(results.success), ref.success)
            /\ isPrefixOf(pathsOf(results.failed), ref.failed)
       /\ joined =>
            /\ Range(pathsOf(results.success)) = Range(ref.success)
            /\ Range(pathsOf(results.failed)) = Range(ref.failed)
            /\ Len(results.success) = Len(ref.success)
            /\ Len(results.failed) = Len(ref.failed)

C15_Witness ==
  /\ program = "cli" /\ transform # AnyTransform /\ joined
  /\ maxConcurrent = 2
  /\ Len(results.failed) >= 1
  /\ Len(results.success) >= 2
  /\ pathsOf(results.success) # sequentialRun(allFiles).success

\* C16: a pass of index.js never writes to an item's input file.  No file
\* below the source directory is changed or removed by any pass; in a
\* recovery pass the file of an item keeps the bytes it had when the pass
\* started for as long as it exists, and it is removed only when the item
\* is in the success list.
C16_InputNeverWritten ==
  program = "cli" =>
    /\ \A q \in DOMAIN fsAtStart :
         IsPrefix(SOURCE_ROOT, q) => (q \in DOMAIN fs /\ fs[q] = fsAtStart[q])
    /\ isRetry =>
         \A f \in Range(allFiles) :
           /\ f \in DOMAIN fs => fs[f] = fsAtStart[f]
           /\ f \notin DOMAIN fs => f \in Range(pathsOf(results.success))

\* The parts of C16 that hold: the source directory is never written, and a
\* quarantined copy is removed only once its item is in the success list.
C16_SourceNeverWritten ==
  program = "cli" =>
    /\ \A q \in DOMAIN fsAtStart :
         IsPrefix(SOURCE_ROOT, q) => (q \in DOMAIN fs /\ fs[q] = fsAtStart[q])
    /\ isRetry =>
         \A f \in Range(allFiles) :
           f \notin DOMAIN fs => f \in Range(pathsOf(results.success))

\* The items retryFailedFolder enqueues in this step.
recoveryQueue == IF mainPc' = "pool" THEN Range(allFiles') ELSE {}

\* The ordering C17 states, at the call of retryFailedFolder: in default
\* mode compressFolder has returned, its workers have all exited, its commit
\* step has run and the unsupported files are copied; with --retry-failed no
\* full pass has run and nothing below the source directory is enqueued.
recoveryInOrder ==
  /\ allSettled(workers)
  /\ ~retryOnly =>
       /\ mainPc = "fullReturned"
       /\ allFiles # <<>> => (joined /\ stats # NoStats)
       /\ existsSync(SOURCE_ROOT) =>
            outputPathOf(SourceRootOf, OutputRootOf, SvgFile) \in DOMAIN fs
  /\ retryOnly => (allFiles = <<>> /\ results.success = <<>> /\ results.failed = <<>>)
  /\ \A f \in recoveryQueue : ~IsPrefix(SOURCE_ROOT, f)

\* C17 as claimed: a recovery pass starts only in that order, and the
\* recovery pass of default mode enqueues the quarantined copy of every item
\* in the failed list of the full pass.
C17_FullPassThenRecovery ==
  [][recoveryCalled =>
       /\ recoveryInOrder
       /\ ~retryOnly =>
            \A i \in 1..Len(results.failed) :
              quarantinePath(results.failed[i].filePath) \in recoveryQueue]_vars

\* C17 amended: the same, for every item in the failed list of the full
\* pass whose copy to the holding directory did not throw.
C17_FullPassThenRecoveryOfCopied ==
  [][recoveryCalled =>
       /\ recoveryInOrder
       /\ ~retryOnly =>
            \A i \in 1..Len(results.failed) :
              results.failed[i].filePath \notin warned =>
                quarantinePath(results.failed[i].filePath) \in recoveryQueue]_vars

C17_Witness ==
  /\ program = "cli" /\ ~retryOnly /\ run = 1
  /\ isRetry /\ mainPc = "pool"
  /\ Len(allFiles) >= 2
  /\ outputPathOf(SourceRootOf, OutputRootOf, SvgFile) \in DOMAIN fs

\* C18: every pass of index.js that starts a pool terminates when every
\* request returns: the queue becomes empty, every worker exits and
\* await Promise.all(workers) returns.
C18_PassTerminates ==
  (program = "cli" /\ mainPc = "pool")
    ~> (joined /\ mainPc # "pool" /\ filesToProcess = <<>> /\ allSettled(workers))

C18_Witness ==
  /\ program = "cli" /\ joined /\ mainPc # "pool"
  /\ maxRetries = MaxRetriesBound
  /\ Len(allFiles) = MaxImages
  /\ \A f \in Range(allFiles) : attempts[f] = maxRetries + 1
  /\ filesToProcess = <<>> /\ allSettled(workers)

\* C19: the attempts on an item follow the retry loop of compressImageWorker.
\* While an attempt runs it is attempt retryCount + 1 <= maxRetries + 1; a
\* backoff is awaited only after a failed attempt n <= maxRetries and leads
\* to attempt n + 1; a success ends the item at once; a failure is returned
\* only by attempt maxRetries + 1 and carries the error of that attempt; a
\* recorded item is attempted no further; with maxRetries = 0 an item is
\* attempted exactly once.
C19_RetryStateMachine ==
  /\ \A w \in WorkerIds :
       LET file == workers[w].file
           n == workers[w].retryCount
           r == workers[w].result
       IN /\ workers[w].pc = "attempting" =>
               (attempts[file] = n + 1 /\ n <= maxRetries)
          /\ workers[w].pc = "backoff" =>
               (attempts[file] = n /\ n >= 1 /\ n <= maxRetries)
          /\ workers[w].pc = "returned" =>
               /\ r # NoResult
               /\ r.success => (attempts[file] = n + 1 /\ n <= maxRetries)
               /\ ~r.success => (attempts[file] = maxRetries + 1 /\ n = maxRetries + 1
                                 /\ r.error = maxRetries + 1)
  /\ \A i \in 1..Len(recorded) :
       LET f == recorded[i].filePath
       IN /\ \A w \in WorkerIds : workers[w].file # f
          /\ attempts[f] >= 1 /\ attempts[f] <= maxRetries + 1
          /\ ~recorded[i].success =>
               (attempts[f] = maxRetries + 1 /\ recorded[i].error = maxRetries + 1)
          /\ maxRetries = 0 => attempts[f] = 1

C19_Witness ==
  /\ maxRetries = 1
  /\ \E i \in 1..Len(results.success) : attempts[results.success[i].filePath] = 2
  /\ \E i \in 1..Len(results.failed) : results.failed[i].error = 2
  /\ \E w \in WorkerIds : workers[w].pc = "backoff"

\* C20: in a recovery pass, an item whose unlink threw is in the success
\* list once and not in the failed list, no worker stops, the pool is not
\* abandoned, and the pass ends normally with every item recorded.
C20_UnlinkFailureKeepsSuccess ==
  (program = "cli" /\ isRetry) =>
    /\ \A f \in warned :
         /\ Cardinality({i \in 1..Len(results.success) : results.success[i].filePath = f}) = 1
         /\ \A i \in 1..Len(results.failed) : results.failed[i].filePath # f
    /\ \A w \in WorkerIds : workers[w].pc # "threw"
    /\ mainPc \in {"pool", "done"}
    /\ joined => (mainPc = "done" /\ \A f \in Range(allFiles) : timesRecorded(f) = 1)

C20_Witness ==
  /\ afterRecovery /\ mainPc = "done"
  /\ maxConcurrent = 1
  /\ Len(allFiles) >= 2
  /\ results.success # <<>>
  /\ results.success[1].filePath = allFiles[1]
  /\ allFiles[1] \in warned
  /\ Len(recorded) = Len(allFiles)

\* C21: when a copy of the commit step of a full pass has thrown, every
\* failed item whose own copy did not throw still has its record in the
\* holding directory, the success and failed lists still hold every item of
\* the pass once, and the pass goes on to its statistics, which count them.
C21_CopyFailureSkipped ==
  (program = "cli" /\ ~isRetry /\ joined /\ warned # {}) =>
    /\ mainPc # "commit"
    /\ \A i \in 1..Len(results.failed) :
         results.failed[i].filePath \notin warned =>
           quarantinePath(results.failed[i].filePath) \in DOMAIN fs
    /\ warned \subseteq Range(pathsOf(results.failed))
    /\ \A f \in Range(allFiles) : timesRecorded(f) = 1
    /\ mainPc # "stats" =>
         /\ stats.successCount = Len(results.success)
         /\ stats.failedCount = Len(results.failed)

C21_Witness ==
  /\ program = "cli" /\ ~isRetry /\ joined /\ mainPc = "fullReturned"
  /\ holdingOf(fsAtStart) = {}
  /\ Len(results.failed) >= 2
  /\ results.failed[1].filePath \in warned
  /\ results.failed[2].filePath \notin warned
  /\ quarantinePath(results.failed[2].filePath) \in DOMAIN fs
  /\ stats.failedCount = Len(results.failed)

\* The files of the holding directory on disk f, with their contents.
heldFiles(f) == [q \in holdingOf(f) |-> f[q]]

\* C22: outside recovery passes, a step of index.js that changes the holding
\* directory is the commit step, and it is taken when every worker of the
\* full pass has exited: no worker is attempting, backing off, about to push
\* a result or waiting for its task delay.
C22_CommitAfterWorkersExit ==
  [][(program = "cli" /\ ~isRetry /\ heldFiles(fs') # heldFiles(fs)) =>
       /\ mainPc = "commit"
       /\ joined
       /\ running = {}
       /\ allSettled(workers)
       /\ filesToProcess = <<>>]_vars

C22_Witness ==
  /\ program = "cli" /\ ~isRetry /\ mainPc = "stats"
  /\ maxConcurrent = 2
  /\ Cardinality(spawned) = 2
  /\ heldFiles(fs) # heldFiles(fsAtStart)
  /\ running = {}

\* The last index of results.failed with base name n.
lastFailed(n) ==
  LET hits == {i \in 1..Len(results.failed) : basename(results.failed[i].filePath) = n}
  IN CHOOSE i \in hits : \A j \in hits : j <= i

\* Every entry of the holding directory is directly below it.
holdingIsFlat == \A q \in holdingOf(fs) : Len(q) = Len(SAVE_FAILED_TO) + 1

\* C23 as claimed: after the commit step of a full pass the holding
\* directory is flat, and for every failed item the entry under its base
\* name holds the bytes of the item of that base name latest in the failed
\* list, whatever was there before.
C23_LastFailureWins ==
  afterCommit =>
    /\ holdingIsFlat
    /\ \A i \in 1..Len(results.failed) :
         LET f == results.failed[i].filePath
             last == results.failed[lastFailed(basename(f))].filePath
         IN /\ quarantinePath(f) \in DOMAIN fs
            /\ fs[quarantinePath(f)] = fs[last]

\* C23 amended: the same among the failed items whose copy did not throw.
C23_LastCopiedFailureWins ==
  afterCommit =>
    /\ holdingIsFlat
    /\ \A i \in 1..Len(results.failed) :
         LET f == results.failed[i].filePath
         IN f \notin warned =>
              /\ quarantinePath(f) \in DOMAIN fs
              /\ fs[quarantinePath(f)] = fs[results.failed[lastCopied(basename(f))].filePath]

\* Two failed items share a base name, the first of them succeeded in no
\* earlier pass either, and the entry that an earlier invocation left under
\* that name has been replaced by the bytes of the second.
C23_Witness ==
  /\ afterCommit /\ warned = {} /\ run = 2
  /\ \E i, j \in 1..Len(results.failed) :
       LET f == results.failed[i].filePath
           g == results.failed[j].filePath
       IN /\ i < j /\ basename(f) = basename(g)
          /\ quarantinePath(f) \in DOMAIN fsAtStart
          /\ fsAtStart[quarantinePath(f)] = fs[f]
          /\ fs[quarantinePath(f)] = fs[g]

\* The output path compressFolder's pass gives to the source file the bytes
\* of the item at path f come from.
fullPassOutputOf(f) == outputPathOf(SOURCE_ROOT, OUTPUT_ROOT, fsAtStart[f].of)

\* C24: the outputPath of every success record of index.js lies below the
\* output root, directly below it when PRESERVE_DIR_STRUCTURE is off, and is
\* the path a full pass gives to the item's source file, also when the item
\* is processed from the holding directory by a recovery pass.
C24_OutputInsideOutputRoot ==
  program = "cli" =>
    \A i \in 1..Len(results.success) :
      LET r == results.success[i]
      IN /\ IsPrefix(OUTPUT_ROOT, r.outputPath)
         /\ ~preserve => r.outputPath = Append(OUTPUT_ROOT, basename(r.filePath))
         /\ r.outputPath = fullPassOutputOf(r.filePath)

\* C24 restricted to full passes, where it holds.
C24_OutputInsideOutputRootFullPass ==
  (program = "cli" /\ ~isRetry) =>
    \A i \in 1..Len(results.success) :
      LET r == results.success[i]
      IN /\ IsPrefix(OUTPUT_ROOT, r.outputPath)
         /\ ~preserve => r.outputPath = Append(OUTPUT_ROOT, basename(r.filePath))
         /\ r.outputPath = fullPassOutputOf(r.filePath)

\* C25: a step of index.js that removes an entry of the holding directory is
\* taken by a worker of a recovery pass, and the entry is the file of the
\* item that this step appends to the success list; full passes, their
\* commit step and the copying of unsupported files remove nothing from it.
C25_OnlyRecoveryDeletes ==
  [][program = "cli" =>
       \A q \in holdingOf(fs) :
         q \notin DOMAIN fs' =>
           /\ isRetry /\ mainPc = "pool"
           /\ Len(results'.success) = Len(results.success) + 1
           /\ results'.success[Len(results'.success)].filePath = q
           /\ results'.failed = results.failed]_vars

C25_Witness ==
  /\ program = "cli" /\ isRetry /\ mainPc = "pool" /\ maxConcurrent = 2
  /\ Len(results.success) = 1 /\ Len(results.failed) = 1
  /\ results.success[1].filePath \notin DOMAIN fs
  /\ results.failed[1].filePath \in DOMAIN fs
  /\ Cardinality(holdingOf(fs)) = Cardinality(holdingOf(fsAtStart)) - 1

\* C26: once await Promise.all(workers) has settled, in index.js or in
\* extension.js, the success and failed lists of the pass do not change any
\* more.
C26_ResultsFinalAfterPool ==
  [][(joined /\ joined') => results' = results]_vars

\* C26 restricted to index.js, where it holds.
C26_ResultsFinalAfterPoolCli ==
  [][(program = "cli" /\ joined /\ joined') => results' = results]_vars

\* C27: in extension.js the progress callback has been invoked once for
\* every outcome recorded so far, so when the pool has finished its count
\* equals the number of items of the pass.
C27_CallbackOncePerItem ==
  program = "ext" =>
    /\ (\A w \in WorkerIds : workers[w].pc # "returned") =>
         processedCount = Len(recorded)
    /\ joined => processedCount = Len(allFiles)

\* C28: the statistics computed after a pass count every item of the pass
\* once as success or failure, total the original and compressed sizes of
\* the success records alone (an original image has SizeOf(Original) bytes,
\* its artifact SizeOf(Compressed) bytes, a failure contributes nothing),
\* and give 0 percent saved when there is no success.
C28_StatisticsConsistent ==
  stats # NoStats =>
    LET each == SizeOf(Original(SvgFile))
        tiny == SizeOf(Compressed(Original(SvgFile)))
    IN /\ stats.successCount + stats.failedCount = Len(allFiles)
       /\ stats.successCount = Len(results.success)
       /\ stats.failedCount = Len(results.failed)
       /\ stats.totalOriginal = each * Len(results.success)
       /\ stats.totalCompressed = tiny * Len(results.success)
       /\ results.success = <<>> => stats.totalSavedPercent = 0
       /\ results.success # <<>> =>
            stats.totalSavedPercent = ((each - tiny) * 100) \div each

C28_Witness ==
  /\ stats # NoStats
  /\ results.success = <<>>
  /\ Len(results.failed) = MaxImages
  /\ stats.totalSavedPercent = 0
  /\ stats.totalOriginal = 0

\* C29: the items a full pass of index.js or extension.js enqueues are of a
\* supported kind, have no hidden directory on their path, lie neither in
\* the output directory nor in the holding directory, and are original
\* files of the source tree: no artifact and no quarantined copy of an
\* earlier pass.
C29_DiscoveryFilters ==
  ~isRetry =>
    \A f \in Range(allFiles) :
      /\ extname(basename(f)) \in SUPPORTED_FORMATS
      /\ ~IsPrefix(dirname(HiddenFile), f)
      /\ ~IsPrefix(OutputRootOf, f)
      /\ ~IsPrefix(SAVE_FAILED_TO, f)
      /\ f \in DOMAIN fsAtStart /\ fsAtStart[f] = Original(f)

C29_Witness ==
  /\ program = "cli" /\ ~isRetry /\ mainPc = "pool" /\ run = 2
  /\ Len(allFiles) = MaxImages
  /\ HiddenFile \in DOMAIN fsAtStart
  /\ holdingOf(fsAtStart) # {}
  /\ \E q \in DOMAIN fsAtStart : IsPrefix(OUTPUT_ROOT, q) /\ fsAtStart[q].tiny

\* C30: in default mode of index.js, when the full pass has failed at setup
\* (the source directory is missing, or creating the output or the holding
\* directory threw), no recovery pass runs in that invocation: no worker is
\* spawned on the holding directory and none of its files is changed or
\* removed.
C30_SetupFailurePreventsRecovery ==
  (program = "cli" /\ ~retryOnly) =>
    /\ ~existsSync(SOURCE_ROOT) =>
         (~isRetry /\ spawned = {} /\ heldFiles(fs) = heldFiles(fsAtStart))
    /\ mainPc = "caught" => ~isRetry

\* The part of C30 that holds: after a directory creation of the full pass
\* has thrown, main's catch ends the invocation without a recovery pass.
C30_ThrowPreventsRecovery ==
  [][(program = "cli" /\ mainPc = "caught") =>
       (mainPc' = "main" /\ run' = run + 1)]_vars

\* C31 as claimed: within one pass of index.js or extension.js no two
\* success records have the same outputPath.
C31_DistinctOutputPaths ==
  \A i, j \in 1..Len(results.success) :
    i # j => results.success[i].outputPath # results.success[j].outputPath

\* C31 amended: two success records of one pass have the same outputPath
\* only when the directory structure is not preserved and their files share
\* a base name; when it is preserved, a file that exists at the outputPath
\* of a success record holds the compressed bytes of that record's item.
C31_DistinctOutputPathsWhenPreserved ==
  /\ \A i, j \in 1..Len(results.success) :
       (i # j /\ results.success[i].outputPath = results.success[j].outputPath) =>
         /\ ~preserve
         /\ basename(results.success[i].filePath) = basename(results.success[j].filePath)
  /\ preserve =>
       \A i \in 1..Len(results.success) :
         LET r == results.success[i]
         IN r.outputPath \in DOMAIN fs =>
              fs[r.outputPath] = Compressed(fsAtStart[r.filePath])

C31_Witness ==
  /\ preserve /\ joined /\ ~isRetry
  /\ \E i, j \in 1..Len(results.success) :
       LET r == results.success[i]
           t == results.success[j]
       IN /\ i # j
          /\ basename(r.filePath) = basename(t.filePath)
          /\ r.outputPath # t.outputPath
          /\ fs[r.outputPath] = Compressed(fsAtStart[r.filePath])
          /\ fs[t.outputPath] = Compressed(fsAtStart[t.filePath])

====
